---- MODULE Spec2Model ----
(***************************************************************************)
(* Model of scraper.py: the page scraper that picks the polling graph and  *)
(* the polling table of a Wikipedia page and writes them as JSON.          *)
(*                                                                         *)
(* A Python str is a sequence of one-character strings, so that lower(),   *)
(* strip(), `in`, startswith() and join() are computed character by        *)
(* character.  Python's None and a float NaN are the one-element sequences *)
(* None and NaN, which no str equals.                                      *)
(***************************************************************************)
EXTENDS Integers, Sequences, FiniteSets, TLC

VARIABLES
    fn,               \* the function a unit run has called ("idle" before the call)
    arg,              \* the argument of the unit run
    ret,              \* what the called function returned (None before the call)
    pc,               \* main's position ("idle" in a unit run)
    html,             \* the fetched page: [doc, tables]
    idx,              \* extract_graph: position of the loop it is in
    candidates,       \* extract_graph: candidates
    graph_remote_url, \* main: graph_remote_url
    graph_caption,    \* main: graph_caption
    graph_local_path, \* main: graph_local_path
    exc,              \* main: the exception download_graph raised
    notes,            \* main: notes
    table_title,      \* main: table_title
    main_df,          \* main: df
    table_columns,    \* main: columns
    table_rows,       \* main: rows
    site_data,        \* files this run wrote under site/data: name -> payload
    site_assets,      \* files this run wrote under site/assets: name -> bytes
    error             \* the exception that ended main (None while it runs)

unit_vars == <<fn, arg, ret>>

main_vars ==
    <<pc, html, idx, candidates, graph_remote_url, graph_caption,
      graph_local_path, exc, notes, table_title, main_df, table_columns,
      table_rows, site_data, site_assets, error>>

vars == <<unit_vars, main_vars>>

----------------------------------------------------------------------------
(* Python values and str methods *)

None == <<"None">>

NaN == <<"NaN">>

Whitespace == {" "}

LowerChar(c) ==
    CASE c = "A" -> "a" [] c = "B" -> "b" [] c = "C" -> "c" [] c = "D" -> "d"
      [] c = "E" -> "e" [] c = "F" -> "f" [] c = "G" -> "g" [] c = "H" -> "h"
      [] c = "I" -> "i" [] c = "J" -> "j" [] c = "K" -> "k" [] c = "L" -> "l"
      [] c = "M" -> "m" [] c = "N" -> "n" [] c = "O" -> "o" [] c = "P" -> "p"
      [] c = "Q" -> "q" [] c = "R" -> "r" [] c = "S" -> "s" [] c = "T" -> "t"
      [] c = "U" -> "u" [] c = "V" -> "v" [] c = "W" -> "w" [] c = "X" -> "x"
      [] c = "Y" -> "y" [] c = "Z" -> "z" [] OTHER -> c

\* s.lower()
lower(s) == [i \in 1..Len(s) |-> LowerChar(s[i])]

RECURSIVE lstrip(_)
lstrip(s) == IF s # <<>> /\ Head(s) \in Whitespace THEN lstrip(Tail(s)) ELSE s

RECURSIVE rstrip(_)
rstrip(s) ==
    IF s # <<>> /\ s[Len(s)] \in Whitespace
    THEN rstrip(SubSeq(s, 1, Len(s) - 1))
    ELSE s

\* s.strip()
strip(s) == rstrip(lstrip(s))

\* sub in s
In(sub, s) ==
    \E i \in 0..(Len(s) - Len(sub)) : SubSeq(s, i + 1, i + Len(sub)) = sub

\* s.startswith(prefix)
startswith(s, prefix) ==
    Len(prefix) <= Len(s) /\ SubSeq(s, 1, Len(prefix)) = prefix

\* sep.join(parts)
RECURSIVE join(_, _)
join(sep, parts) ==
    IF parts = <<>> THEN <<>>
    ELSE IF Len(parts) = 1 THEN parts[1]
    ELSE parts[1] \o sep \o join(sep, Tail(parts))

----------------------------------------------------------------------------
(* score_graph_candidate *)

score_graph_candidate_case_sensitive(text) ==
    LET t == text
        s1 == IF In(<<"o","p","i","n","i","o","n">>, t) THEN 2 ELSE 0
        s2 == s1 + (IF In(<<"p","o","l","l">>, t) THEN 3 ELSE 0)
        s3 == s2 + (IF In(<<"g","r","a","p","h">>, t) \/ In(<<"c","h","a","r","t">>, t) THEN 1 ELSE 0)
        s4 == s3 + (IF In(<<"n","e","x","t"," ","u","n","i","t","e","d"," ","k","i","n","g","d","o","m">>, t) \/ In(<<"g","e","n","e","r","a","l"," ","e","l","e","c","t","i","o","n">>, t)
                    THEN 2 ELSE 0)
    IN  s4

score_graph_candidate(text) ==
    LET t == lower(text)
        s1 == IF In(<<"o","p","i","n","i","o","n">>, t) THEN 2 ELSE 0
        s2 == s1 + (IF In(<<"p","o","l","l">>, t) THEN 3 ELSE 0)
        s3 == s2 + (IF In(<<"g","r","a","p","h">>, t) \/ In(<<"c","h","a","r","t">>, t) THEN 1 ELSE 0)
        s4 == s3 + (IF In(<<"n","e","x","t"," ","u","n","i","t","e","d"," ","k","i","n","g","d","o","m">>, t) \/ In(<<"g","e","n","e","r","a","l"," ","e","l","e","c","t","i","o","n">>, t)
                    THEN 2 ELSE 0)
    IN  s4

----------------------------------------------------------------------------
(* Tables.  A DataFrame is [columns, data]: columns is the header, [multi,   *)
(* cols], where multi says it is a pd.MultiIndex (cols[i] is then the tuple  *)
(* of column i's levels) and otherwise cols[i] is column i's label; data is  *)
(* the sequence of rows, each a sequence of one cell per column.             *)

\* str(x), for a str or a NaN
str(x) == IF x = NaN THEN <<"n","a","n">> ELSE x

\* [str(x).strip() for x in tup if str(x).strip() and str(x) != "nan"]
level_parts(tup) ==
    LET kept == SelectSeq(tup, LAMBDA x : strip(str(x)) # <<>> /\ str(x) # <<"n","a","n">>)
    IN  [i \in 1..Len(kept) |-> strip(str(kept[i]))]

flatten_columns_nan_after_strip(columns) ==
    IF columns.multi
    THEN [i \in 1..Len(columns.cols) |->
            LET kept == SelectSeq(columns.cols[i],
                            LAMBDA x : strip(str(x)) # <<>> /\ strip(str(x)) # <<"n","a","n">>)
                parts == [k \in 1..Len(kept) |-> strip(str(kept[k]))]
            IN  IF parts # <<>> THEN join(<<" ","|"," ">>, parts) ELSE <<"c","o","l","u","m","n">>]
    ELSE [i \in 1..Len(columns.cols) |-> strip(str(columns.cols[i]))]

flatten_columns(columns) ==
    IF columns.multi
    THEN [i \in 1..Len(columns.cols) |->
            LET parts == level_parts(columns.cols[i])
            IN  IF parts # <<>> THEN join(<<" ","|"," ">>, parts) ELSE <<"c","o","l","u","m","n">>]
    ELSE [i \in 1..Len(columns.cols) |-> strip(str(columns.cols[i]))]

\* for token in tokens: if token in columns: score += weight
RECURSIVE add_tokens(_, _, _, _)
add_tokens(score, tokens, weight, columns) ==
    IF tokens = <<>> THEN score
    ELSE add_tokens(IF In(Head(tokens), columns) THEN score + weight ELSE score,
                    Tail(tokens), weight, columns)

score_table_more_than_5_rows(df) ==
    LET columns == lower(join(<<" ">>, flatten_columns(df.columns)))
        s1 == add_tokens(0, << <<"p","o","l","l">>, <<"p","o","l","l","s","t","e","r">>, <<"d","a","t","e">>, <<"f","i","e","l","d","w","o","r","k">> >>,
                         2, columns)
        s2 == add_tokens(s1, << <<"c","o","n">>, <<"c","o","n","s","e","r","v","a","t","i","v","e">>, <<"l","a","b">>, <<"l","a","b","o","u","r">>,
                                <<"l","d">>, <<"l","i","b"," ","d","e","m">>, <<"r","e","f","o","r","m">> >>, 1, columns)
    IN  IF Len(df.data) > 5 THEN s2 + 1 ELSE s2

score_table(df) ==
    LET columns == lower(join(<<" ">>, flatten_columns(df.columns)))
        s1 == add_tokens(0, << <<"p","o","l","l">>, <<"p","o","l","l","s","t","e","r">>, <<"d","a","t","e">>, <<"f","i","e","l","d","w","o","r","k">> >>,
                         2, columns)
        s2 == add_tokens(s1, << <<"c","o","n">>, <<"c","o","n","s","e","r","v","a","t","i","v","e">>, <<"l","a","b">>, <<"l","a","b","o","u","r">>,
                                <<"l","d">>, <<"l","i","b"," ","d","e","m">>, <<"r","e","f","o","r","m">> >>, 1, columns)
    IN  IF Len(df.data) >= 5 THEN s2 + 1 ELSE s2

\* max(tables, key=score_table) from position i on, best being the position
\* of the largest key so far: a later item replaces it only with a larger key
RECURSIVE max_by_score(_, _, _)
max_by_score(tables, i, best) ==
    IF i > Len(tables) THEN best
    ELSE max_by_score(tables, i + 1,
            IF score_table(tables[i]) > score_table(tables[best]) THEN i ELSE best)

RECURSIVE max_by_score_last(_, _, _)
max_by_score_last(tables, i, best) ==
    IF i > Len(tables) THEN best
    ELSE max_by_score_last(tables, i + 1,
            IF score_table(tables[i]) >= score_table(tables[best]) THEN i ELSE best)

NoTablesFound == <<"N","o"," ","t","a","b","l","e","s"," ","f","o","u","n","d"," ","o","n"," ","p","a","g","e">>

NoConfidentTable == <<"C","o","u","l","d"," ","n","o","t"," ","c","o","n","f","i","d","e","n","t","l","y"," ","i","d","e","n","t","i","f","y"," ","p","o","l","l","i","n","g"," ","t","a","b","l","e">>

TableTitle == <<"W","i","k","i","p","e","d","i","a"," ","p","o","l","l","i","n","g"," ","t","a","b","l","e"," ","(","a","u","t","o","-","d","e","t","e","c","t","e","d",")">>

\* A call's outcome: the exception message it raised (None when it returned)
\* and the value it returned (None when it raised).
Raise(msg) == [raised |-> msg, value |-> None]

Return(v) == [raised |-> None, value |-> v]

extract_table_last_max(tables) ==
    IF tables = <<>> THEN Raise(NoTablesFound)
    ELSE LET best_df == tables[max_by_score_last(tables, 1, 1)]
             best_score == score_table(best_df)
         IN  IF best_score < 4 THEN Raise(NoConfidentTable)
             ELSE Return(<<TableTitle, best_df>>)

\* extract_table, given what pd.read_html(html) parsed
extract_table(tables) ==
    IF tables = <<>> THEN Raise(NoTablesFound)
    ELSE LET best_df == tables[max_by_score(tables, 1, 1)]
             best_score == score_table(best_df)
         IN  IF best_score < 4 THEN Raise(NoConfidentTable)
             ELSE Return(<<TableTitle, best_df>>)

\* d[k] = v on a dict, a sequence of <<key, value>> in insertion order: a key
\* already there keeps its place and takes the new value
dict_set(d, k, v) ==
    IF \E i \in 1..Len(d) : d[i][1] = k
    THEN [i \in 1..Len(d) |-> IF d[i][1] = k THEN <<k, v>> ELSE d[i]]
    ELSE Append(d, <<k, v>>)

\* dict(zip(keys, values)), from position i on
RECURSIVE dict_zip(_, _, _, _)
dict_zip(d, keys, values, i) ==
    IF i > Len(keys) \/ i > Len(values) THEN d
    ELSE dict_zip(dict_set(d, keys[i], values[i]), keys, values, i + 1)

\* df.fillna("") on one cell
fillna(v) == IF v = NaN THEN <<>> ELSE v

\* {str(k): ("" if pd.isna(v) else str(v)) for k, v in row.items()}
RECURSIVE str_items(_, _, _)
str_items(d, row, i) ==
    IF i > Len(row) THEN d
    ELSE str_items(dict_set(d, str(row[i][1]),
                            IF row[i][2] = NaN THEN <<>> ELSE str(row[i][2])),
                   row, i + 1)

dataframe_to_rows(df) ==
    LET columns == flatten_columns(df.columns)
        filled == [r \in 1..Len(df.data) |->
                      [c \in 1..Len(df.data[r]) |-> fillna(df.data[r][c])]]
        records == [r \in 1..Len(filled) |-> dict_zip(<<>>, columns, filled[r], 1)]
        rows == [r \in 1..Len(records) |-> str_items(<<>>, records[r], 1)]
    IN  <<columns, rows>>

----------------------------------------------------------------------------
(* URLs and file names *)

Min(S) == CHOOSE x \in S : \A y \in S : x <= y

Max(S) == CHOOSE x \in S : \A y \in S : y <= x

\* the first position of sub in s at or after position from, 0 when none
find(s, sub, from) ==
    LET hits == {k \in from..(Len(s) - Len(sub) + 1) :
                    SubSeq(s, k, k + Len(sub) - 1) = sub}
    IN  IF hits = {} THEN 0 ELSE Min(hits)

\* the last position of sub in s, 0 when none
rfind(s, sub) ==
    LET hits == {k \in 1..(Len(s) - Len(sub) + 1) :
                    SubSeq(s, k, k + Len(sub) - 1) = sub}
    IN  IF hits = {} THEN 0 ELSE Max(hits)

DEFAULT_PAGE_URL ==
    <<"h","t","t","p","s",":","/","/","e","n",".","w","i","k","i","p","e","d","i","a",".","o","r","g","/","w","i","k","i","/","O","p","i","n","i","o","n","_","p","o","l","l","i","n","g","_","f","o","r","_","t","h","e","_","n","e","x","t","_","U","n","i","t","e","d","_","K","i","n","g","d","o","m","_","g","e","n","e","r","a","l","_","e","l","e","c","t","i","o","n">>

normalize_img_url(src) ==
    IF startswith(src, <<"/","/">>) THEN <<"h","t","t","p","s",":">> \o src ELSE src

\* urljoin(base, url) for an absolute base and a url that is absolute,
\* protocol-relative, rooted at "/" or a plain relative path
urljoin(base, url) ==
    LET colon == find(base, <<":","/","/">>, 1)
        slash == find(base, <<"/">>, colon + 3)
        origin == IF slash = 0 THEN base ELSE SubSeq(base, 1, slash - 1)
        dir == IF slash = 0 THEN base \o <<"/">> ELSE SubSeq(base, 1, rfind(base, <<"/">>))
    IN  IF find(url, <<":","/","/">>, 1) # 0 THEN url
        ELSE IF startswith(url, <<"/","/">>) THEN SubSeq(base, 1, colon) \o url
        ELSE IF startswith(url, <<"/">>) THEN origin \o url
        ELSE dir \o url

\* urlparse(url).path of an absolute url
url_path(url) ==
    LET colon == find(url, <<":","/","/">>, 1)
        slash == find(url, <<"/">>, colon + 3)
        rest == IF slash = 0 THEN <<>> ELSE SubSeq(url, slash, Len(url))
        cuts == {k \in 1..Len(rest) : rest[k] \in {"?", "#"}}
    IN  IF cuts = {} THEN rest ELSE SubSeq(rest, 1, Min(cuts) - 1)

RECURSIVE rstrip_slashes(_)
rstrip_slashes(path) ==
    IF path # <<>> /\ path[Len(path)] = "/"
    THEN rstrip_slashes(SubSeq(path, 1, Len(path) - 1))
    ELSE path

\* Path(path).name
path_name(path) ==
    LET q == rstrip_slashes(path)
    IN  SubSeq(q, rfind(q, <<"/">>) + 1, Len(q))

\* the characters of [A-Za-z0-9._-]
FilenameChars ==
    { "a", "b", "c", "d", "e", "f", "g", "h", "i", "j", "k", "l", "m", "n", "o",
      "p", "q", "r", "s", "t", "u", "v", "w", "x", "y", "z",
      "A", "B", "C", "D", "E", "F", "G", "H", "I", "J", "K", "L", "M", "N", "O",
      "P", "Q", "R", "S", "T", "U", "V", "W", "X", "Y", "Z",
      "0", "1", "2", "3", "4", "5", "6", "7", "8", "9", ".", "_", "-" }

\* re.sub(r"[^A-Za-z0-9._-]+", "_", name); in_run says the character before
\* was replaced too
RECURSIVE re_sub_runs(_, _)
re_sub_runs(name, in_run) ==
    IF name = <<>> THEN <<>>
    ELSE IF Head(name) \in FilenameChars
         THEN <<Head(name)>> \o re_sub_runs(Tail(name), FALSE)
         ELSE (IF in_run THEN <<>> ELSE <<"_">>) \o re_sub_runs(Tail(name), TRUE)

sanitize_filename_from_url(url) ==
    LET parsed_name == path_name(url_path(url))
        name == re_sub_runs(IF parsed_name = <<>> THEN <<"g","r","a","p","h">> ELSE parsed_name,
                            FALSE)
    IN  IF ~In(<<".">>, name) THEN name \o <<".","i","m","g">> ELSE name

\* Path(name).suffix
path_suffix(name) ==
    LET k == rfind(name, <<".">>)
    IN  IF k > 1 /\ k < Len(name) THEN SubSeq(name, k, Len(name)) ELSE <<>>

\* resp.content
ImageBytes == <<"<","i","m","a","g","e"," ","b","y","t","e","s",">">>

\* The steps of download_graph that can raise, and what str(exc) then reads.
DownloadSteps == {"mkdir", "get", "raise_for_status", "write_local", "write_latest"}

DownloadError(step) ==
    CASE step = "mkdir" -> <<"P","e","r","m","i","s","s","i","o","n"," ","d","e","n","i","e","d">>
      [] step = "get" -> <<"C","o","n","n","e","c","t","i","o","n"," ","t","i","m","e","d"," ","o","u","t">>
      [] step = "raise_for_status" -> <<"4","0","4"," ","C","l","i","e","n","t"," ","E","r","r","o","r">>
      [] step = "write_local" -> <<"N","o"," ","s","p","a","c","e"," ","l","e","f","t"," ","o","n"," ","d","e","v","i","c","e">>
      [] step = "write_latest" -> <<"N","o"," ","s","p","a","c","e"," ","l","e","f","t"," ","o","n"," ","d","e","v","i","c","e">>

\* download_graph when step raises ("none": no step does): the assets
\* directory afterwards and the call's outcome
download_graph(graph_url, assets, step) ==
    LET filename == sanitize_filename_from_url(graph_url)
        written == dict_set(assets, filename, ImageBytes)
        latest_ext == IF path_suffix(filename) = <<>> THEN <<".","i","m","g">>
                      ELSE path_suffix(filename)
        latest_name == <<"g","r","a","p","h","-","l","a","t","e","s","t">> \o latest_ext
    IN  IF step \in {"mkdir", "get", "raise_for_status", "write_local"}
        THEN [assets |-> assets, outcome |-> Raise(DownloadError(step))]
        ELSE IF step = "write_latest"
        THEN [assets |-> written, outcome |-> Raise(DownloadError(step))]
        ELSE [assets |-> dict_set(written, latest_name, ImageBytes),
              outcome |-> Return(<<"a","s","s","e","t","s","/">> \o latest_name)]

----------------------------------------------------------------------------
(* The parsed page.  doc is the sequence, in document order, of the figure  *)
(* containers ("figure, div.thumb, .thumbinner") and of the images outside  *)
(* them; a node is [tag, imgs, caption_el, in_content]: imgs the node's     *)
(* images in document order (the image itself, for an image node), each     *)
(* [src, alt] with None for an attribute it lacks; caption_el the text of   *)
(* the container's caption element, None without one; in_content whether    *)
(* the node lies inside #mw-content-text.                                   *)

Img(src, alt) == [src |-> src, alt |-> alt]

Container(imgs, caption_el) ==
    [tag |-> "figure", imgs |-> imgs, caption_el |-> caption_el, in_content |-> TRUE]

BareImg(img, in_content) ==
    [tag |-> "img", imgs |-> <<img>>, caption_el |-> None, in_content |-> in_content]

\* soup.select("figure, div.thumb, .thumbinner")
select_containers(doc) == SelectSeq(doc, LAMBDA n : n.tag = "figure")

\* soup.select("#mw-content-text img")
RECURSIVE select_content_imgs(_)
select_content_imgs(doc) ==
    IF doc = <<>> THEN <<>>
    ELSE (IF Head(doc).in_content THEN Head(doc).imgs ELSE <<>>)
         \o select_content_imgs(Tail(doc))

\* a str or None, as a truth value
truthy(x) == x # None /\ x # <<>>

\* the candidate the primary loop's body appends for a container, <<>> when
\* it continues without one; a candidate is <<score, url, caption>>
primary_candidate(container, page_url) ==
    IF container.imgs = <<>> \/ ~truthy(container.imgs[1].src) THEN <<>>
    ELSE LET img == container.imgs[1]
             alt_text == IF img.alt = None THEN <<>> ELSE img.alt
             caption == IF container.caption_el # None
                        THEN strip(container.caption_el) ELSE <<>>
             context == strip(alt_text \o <<" ">> \o caption)
             score == score_graph_candidate(context)
         IN  IF score <= 0 THEN <<>>
             ELSE << <<score, urljoin(page_url, normalize_img_url(img.src)),
                       IF caption = <<>> THEN None ELSE caption>> >>

\* whether the fallback loop's body returns this image
fallback_match_case_sensitive(img) ==
    LET alt_text == IF truthy(img.alt) THEN img.alt ELSE <<>>
    IN  In(<<"p","o","l","l">>, alt_text) /\ truthy(img.src)

fallback_match(img) ==
    LET alt_text == lower(IF truthy(img.alt) THEN img.alt ELSE <<>>)
    IN  In(<<"p","o","l","l">>, alt_text) /\ truthy(img.src)

insert_desc_unstable(sorted, item) ==
    LET ahead == {k \in 1..Len(sorted) : sorted[k][1] > item[1]}
        n == IF ahead = {} THEN 0 ELSE Max(ahead)
    IN  SubSeq(sorted, 1, n) \o <<item>> \o SubSeq(sorted, n + 1, Len(sorted))

\* list.sort(key=item[0], reverse=True): item goes behind every item of the
\* sorted list whose score is at least its own
insert_desc(sorted, item) ==
    LET ahead == {k \in 1..Len(sorted) : sorted[k][1] >= item[1]}
        n == IF ahead = {} THEN 0 ELSE Max(ahead)
    IN  SubSeq(sorted, 1, n) \o <<item>> \o SubSeq(sorted, n + 1, Len(sorted))

RECURSIVE sort_desc(_, _)
sort_desc(sorted, items) ==
    IF items = <<>> THEN sorted
    ELSE sort_desc(insert_desc(sorted, Head(items)), Tail(items))

----------------------------------------------------------------------------
(* Inputs of the unit runs *)

MaxWords == 2

\* all sequences over S of length at most n
SeqUpTo(S, n) == UNION {[1..k -> S] : k \in 0..n}

Phrases ==
    { <<"O","p","i","n","i","o","n"," ","p","o","l","l"," ","g","r","a","p","h">>, <<"P","O","L","L","I","N","G">>, <<"C","h","a","r","t">>, <<"n","e","x","t"," ","u","n","i","t","e","d">>,
      <<"K","i","n","g","d","o","m">>, <<"G","e","n","e","r","a","l"," ","E","l","e","c","t","i","o","n">>, <<"m","a","p">>, <<"o","p","i","n","i","o","n","s">> }

\* the texts of at most n phrases
Texts(n) == {join(<<" ">>, ws) : ws \in SeqUpTo(Phrases, n)}

MaxCols == 2

MaxRows == 5

MaxTables == 2

MaxDataRows == 2

NonEmptySeqUpTo(S, n) == SeqUpTo(S, n) \ {<<>>}

Index(cols) == [multi |-> FALSE, cols |-> cols]

MultiIndex(cols) == [multi |-> TRUE, cols |-> cols]

\* labels of a single-level header
Labels ==
    { <<"P","o","l","l","s","t","e","r">>, <<"F","i","e","l","d","w","o","r","k"," ","d","a","t","e","s">>, <<"N","a","m","e">>, <<"V","a","l","u","e">>, <<"C","o","n">>, <<" ","L","a","b"," ">>,
      <<"L","i","b">>, <<"D","e","m">>, NaN }

\* level values of a two-level header
Levels == { <<"C","o","n">>, <<"%">>, NaN, <<" ","n","a","n">>, <<" ">> }

\* the headers of at most n columns
Headers(n) ==
    {Index(c) : c \in NonEmptySeqUpTo(Labels, n)}
    \cup {MultiIndex(c) : c \in NonEmptySeqUpTo([1..2 -> Levels], n)}

\* a table of n rows whose cells all read "1"
Table(columns, n) ==
    [columns |-> columns,
     data |-> [r \in 1..n |-> [c \in 1..Len(columns.cols) |-> <<"1">>]]]

ScoredHeaders(n) ==
    {Index(c) : c \in NonEmptySeqUpTo(Labels, n)}
    \cup {MultiIndex(c) :
            c \in NonEmptySeqUpTo({ << <<"C","o","n">>, <<"%">> >>, << <<"D","a","t","e">>, <<" ">> >>,
                                    << NaN, <<>> >> }, n)}

\* the tables of at most n columns and at most m rows
ScoredTables(n, m) == {Table(h, k) : h \in ScoredHeaders(n), k \in 0..m}

CandidateTables ==
    {Table(Index(<<l>>), n) :
        l \in { <<"P","o","l","l","s","t","e","r">>, <<"F","i","e","l","d","w","o","r","k"," ","d","a","t","e","s">>, <<"D","a","t","e">>, <<"N","a","m","e">> }, n \in {4, 5}}

\* what pd.read_html parsed: at most n tables
TableLists(n) == SeqUpTo(CandidateTables, n)

Cells == { <<"4","1">>, NaN }

RowHeaders(n) ==
    {Index(c) : c \in NonEmptySeqUpTo({ <<"C","o","n">>, <<" ","C","o","n">>, <<"L","a","b">> }, n)}
    \cup {MultiIndex(c) :
            c \in NonEmptySeqUpTo({ << NaN, <<>> >>, << <<>>, NaN >>,
                                    << <<"C","o","n">>, <<"%">> >> }, n)}

MaxNodes == 2

Imgs ==
    { Img(<<"/","/","u","p","l","o","a","d",".","w","i","k","i","m","e","d","i","a",".","o","r","g","/","O","p","i","n","i","o","n"," ","p","o","l","l","s",".","s","v","g">>, <<"O","p","i","n","i","o","n"," ","p","o","l","l">>),
      Img(<<"/","s","t","a","t","i","c","/","b",".","p","n","g">>, <<"P","O","L","L">>),
      Img(None, <<"p","o","l","l">>),
      Img(<<"m","a","p">>, None) }

Nodes ==
    {Container(imgs, cap) :
        imgs \in {<<>>} \cup {<<m>> : m \in Imgs}
                 \cup {<< Img(None, <<"p","o","l","l">>), Img(<<"/","s","t","a","t","i","c","/","b",".","p","n","g">>, <<"P","O","L","L">>) >>},
        cap \in {None, <<" ","O","p","i","n","i","o","n"," ","p","o","l","l","i","n","g"," ">>}}
    \cup {BareImg(m, c) : m \in Imgs, c \in BOOLEAN}

\* the documents of at most n nodes
Docs(n) == SeqUpTo(Nodes, n)

\* the pages of the runs of main
MainNodes ==
    { Container(<< Img(<<"/","/","u","p","l","o","a","d",".","w","i","k","i","m","e","d","i","a",".","o","r","g","/","O","p","i","n","i","o","n"," ","p","o","l","l","s",".","s","v","g">>, <<"O","p","i","n","i","o","n"," ","p","o","l","l">>) >>,
                <<" ","O","p","i","n","i","o","n"," ","p","o","l","l","i","n","g"," ">>),
      BareImg(Img(<<"/","s","t","a","t","i","c","/","b",".","p","n","g">>, <<"P","O","L","L">>), TRUE),
      BareImg(Img(None, <<"p","o","l","l">>), TRUE) }

MainTables ==
    { Table(Index(<< <<"P","o","l","l","s","t","e","r">>, <<"C","o","n">> >>), 2),
      Table(Index(<< <<"D","a","t","e">>, <<" ","L","a","b"," ">> >>), 5),
      Table(Index(<< <<"N","a","m","e">>, <<"V","a","l","u","e">> >>), 2) }

\* the pages of at most n nodes and at most m tables
Pages(n, m) ==
    {[doc |-> d, tables |-> t] :
        d \in SeqUpTo(MainNodes, n), t \in SeqUpTo(MainTables, m)}

\* the tables of at most n columns and at most m rows, with their cells
RowTables(n, m) ==
    UNION {{[columns |-> h, data |-> d] :
                d \in SeqUpTo([1..Len(h.cols) -> Cells], m)} :
           h \in RowHeaders(n)}

----------------------------------------------------------------------------
(* Unit runs: one call of one function on one input *)

MainIdle ==
    /\ pc = "idle"
    /\ html = None
    /\ idx = 0
    /\ candidates = <<>>
    /\ graph_remote_url = None
    /\ graph_caption = None
    /\ graph_local_path = None
    /\ exc = None
    /\ notes = <<>>
    /\ table_title = None
    /\ main_df = None
    /\ table_columns = <<>>
    /\ table_rows = <<>>
    /\ site_data = <<>>
    /\ site_assets = <<>>
    /\ error = None

InitUnit(S) == fn = "idle" /\ arg \in S /\ ret = None /\ MainIdle

Call_score_graph_candidate ==
    /\ fn = "idle"
    /\ fn' = "score_graph_candidate"
    /\ ret' = score_graph_candidate(arg)
    /\ UNCHANGED <<arg, main_vars>>

SpecScoreGraph == InitUnit(Texts(MaxWords)) /\ [][Call_score_graph_candidate]_vars

Call_flatten_columns ==
    /\ fn = "idle"
    /\ fn' = "flatten_columns"
    /\ ret' = flatten_columns(arg)
    /\ UNCHANGED <<arg, main_vars>>

SpecFlatten == InitUnit(Headers(MaxCols)) /\ [][Call_flatten_columns]_vars

Call_score_table ==
    /\ fn = "idle"
    /\ fn' = "score_table"
    /\ ret' = score_table(arg)
    /\ UNCHANGED <<arg, main_vars>>

SpecScoreTable == InitUnit(ScoredTables(MaxCols, MaxRows)) /\ [][Call_score_table]_vars

Call_extract_table ==
    /\ fn = "idle"
    /\ fn' = "extract_table"
    /\ ret' = extract_table(arg)
    /\ UNCHANGED <<arg, main_vars>>

SpecExtractTable == InitUnit(TableLists(MaxTables)) /\ [][Call_extract_table]_vars

Call_dataframe_to_rows ==
    /\ fn = "idle"
    /\ fn' = "dataframe_to_rows"
    /\ ret' = dataframe_to_rows(arg)
    /\ UNCHANGED <<arg, main_vars>>

SpecRows == InitUnit(RowTables(MaxCols, MaxDataRows)) /\ [][Call_dataframe_to_rows]_vars

----------------------------------------------------------------------------
(* extract_graph, a step at a time *)

page_url == DEFAULT_PAGE_URL

\* candidates: list = []; the first loop begins
GraphBegin ==
    /\ pc = "extract_graph"
    /\ candidates' = <<>>
    /\ idx' = 1
    /\ pc' = "graph_primary"
    /\ UNCHANGED <<unit_vars, html, graph_remote_url, graph_caption,
                   graph_local_path, exc, notes, table_title, main_df,
                   table_columns, table_rows, site_data, site_assets, error>>

\* one pass of the loop over the containers
GraphPrimaryStep ==
    /\ pc = "graph_primary"
    /\ idx <= Len(select_containers(html.doc))
    /\ candidates' = candidates
                     \o primary_candidate(select_containers(html.doc)[idx], page_url)
    /\ idx' = idx + 1
    /\ UNCHANGED <<unit_vars, pc, html, graph_remote_url, graph_caption,
                   graph_local_path, exc, notes, table_title, main_df,
                   table_columns, table_rows, site_data, site_assets, error>>

\* if not candidates: the fallback loop begins; otherwise the sort is next
GraphPrimaryEnd ==
    /\ pc = "graph_primary"
    /\ idx > Len(select_containers(html.doc))
    /\ pc' = IF candidates = <<>> THEN "graph_fallback" ELSE "graph_sort"
    /\ idx' = 1
    /\ UNCHANGED <<unit_vars, html, candidates, graph_remote_url, graph_caption,
                   graph_local_path, exc, notes, table_title, main_df,
                   table_columns, table_rows, site_data, site_assets, error>>

\* one pass of the fallback loop over the article's images
GraphFallbackStep ==
    /\ pc = "graph_fallback"
    /\ idx <= Len(select_content_imgs(html.doc))
    /\ LET img == select_content_imgs(html.doc)[idx]
       IN  IF fallback_match(img)
           THEN /\ graph_remote_url' = urljoin(page_url, normalize_img_url(img.src))
                /\ graph_caption' = img.alt
                /\ pc' = "graph_returned"
                /\ idx' = idx
           ELSE /\ idx' = idx + 1
                /\ UNCHANGED <<pc, graph_remote_url, graph_caption>>
    /\ UNCHANGED <<unit_vars, html, candidates, graph_local_path, exc, notes,
                   table_title, main_df, table_columns, table_rows, site_data,
                   site_assets, error>>

\* the fallback loop ends without a match: return None, None
GraphFallbackEnd ==
    /\ pc = "graph_fallback"
    /\ idx > Len(select_content_imgs(html.doc))
    /\ graph_remote_url' = None
    /\ graph_caption' = None
    /\ pc' = "graph_returned"
    /\ UNCHANGED <<unit_vars, html, idx, candidates, graph_local_path, exc, notes,
                   table_title, main_df, table_columns, table_rows, site_data,
                   site_assets, error>>

\* candidates.sort(...); return candidates[0]'s url and caption
GraphSortReturn ==
    /\ pc = "graph_sort"
    /\ candidates' = sort_desc(<<>>, candidates)
    /\ graph_remote_url' = candidates'[1][2]
    /\ graph_caption' = candidates'[1][3]
    /\ pc' = "graph_returned"
    /\ UNCHANGED <<unit_vars, html, idx, graph_local_path, exc, notes,
                   table_title, main_df, table_columns, table_rows, site_data,
                   site_assets, error>>

GraphNext ==
    \/ GraphBegin
    \/ GraphPrimaryStep
    \/ GraphPrimaryEnd
    \/ GraphFallbackStep
    \/ GraphFallbackEnd
    \/ GraphSortReturn

MainLocalsInit ==
    /\ idx = 0
    /\ candidates = <<>>
    /\ graph_remote_url = None
    /\ graph_caption = None
    /\ graph_local_path = None
    /\ exc = None
    /\ notes = <<>>
    /\ table_title = None
    /\ main_df = None
    /\ table_columns = <<>>
    /\ table_rows = <<>>
    /\ site_data = <<>>
    /\ site_assets = <<>>
    /\ error = None

\* extract_graph called on a parsed page
InitGraph ==
    /\ fn = "extract_graph"
    /\ arg = None
    /\ ret = None
    /\ pc = "extract_graph"
    /\ html \in {[doc |-> d, tables |-> <<>>] : d \in Docs(MaxNodes)}
    /\ MainLocalsInit

SpecGraph == InitGraph /\ [][GraphNext]_vars

----------------------------------------------------------------------------
(* main *)

fetched_at == <<"2","0","2","6","-","1","1","-","0","4","T","0","5",":","0","6",":","0","7","+","0","0",":","0","0">>

GraphNotFoundNote == <<"G","r","a","p","h"," ","i","m","a","g","e"," ","n","o","t"," ","f","o","u","n","d"," ","o","n"," ","p","a","g","e">>

DownloadFailedNote(e) == <<"G","r","a","p","h"," ","d","o","w","n","l","o","a","d"," ","f","a","i","l","e","d",":"," ">> \o e

FetchFailed == <<"f","e","t","c","h","_","h","t","m","l"," ","r","a","i","s","e","d">>

\* the payload main builds from its locals
Payload ==
    [source_url |-> page_url,
     fetched_at |-> fetched_at,
     graph |-> [remote_url |-> graph_remote_url,
                local_path |-> graph_local_path,
                caption |-> graph_caption],
     table |-> [title |-> table_title,
                columns |-> table_columns,
                rows |-> table_rows,
                row_count |-> Len(table_rows)],
     notes |-> notes]

latest_name == <<"l","a","t","e","s","t",".","j","s","o","n">>

\* f"{date_key}.json", date_key = fetched_at.split("T")[0]
history_name == SubSeq(fetched_at, 1, find(fetched_at, <<"T">>, 1) - 1) \o <<".","j","s","o","n">>

\* fetch_html and the two parses of the page; a failed request ends the run
MainFetch ==
    /\ pc = "start"
    /\ \E ok \in BOOLEAN :
        IF ok THEN pc' = "extract_graph" /\ error' = error
        ELSE pc' = "failed" /\ error' = FetchFailed
    /\ UNCHANGED <<unit_vars, html, idx, candidates, graph_remote_url,
                   graph_caption, graph_local_path, exc, notes, table_title,
                   main_df, table_columns, table_rows, site_data, site_assets>>

MainAfterGraph_no_note ==
    /\ pc = "graph_returned"
    /\ pc' = IF truthy(graph_remote_url) THEN "download" ELSE "extract_table"
    /\ UNCHANGED <<unit_vars, html, idx, candidates, graph_remote_url,
                   graph_caption, graph_local_path, exc, notes, table_title,
                   main_df, table_columns, table_rows, site_data, site_assets, error>>

\* if graph_remote_url: ... else: notes.append("Graph image not found on page")
MainAfterGraph ==
    /\ pc = "graph_returned"
    /\ IF truthy(graph_remote_url)
       THEN pc' = "download" /\ notes' = notes
       ELSE pc' = "extract_table" /\ notes' = Append(notes, GraphNotFoundNote)
    /\ UNCHANGED <<unit_vars, html, idx, candidates, graph_remote_url,
                   graph_caption, graph_local_path, exc, table_title,
                   main_df, table_columns, table_rows, site_data, site_assets, error>>

MainDownload_uncaught ==
    /\ pc = "download"
    /\ \E step \in DownloadSteps \cup {"none"} :
        LET r == download_graph(graph_remote_url, site_assets, step)
        IN  /\ site_assets' = r.assets
            /\ IF r.outcome.raised = None
               THEN /\ graph_local_path' = r.outcome.value
                    /\ pc' = "extract_table"
                    /\ UNCHANGED <<exc, error>>
               ELSE /\ exc' = r.outcome.raised
                    /\ error' = r.outcome.raised
                    /\ pc' = "failed"
                    /\ UNCHANGED graph_local_path
    /\ UNCHANGED <<unit_vars, html, idx, candidates, graph_remote_url,
                   graph_caption, notes, table_title, main_df, table_columns,
                   table_rows, site_data>>

\* try: graph_local_path = download_graph(...)
\* except Exception as exc: notes.append(f"Graph download failed: {exc}")
MainDownload ==
    /\ pc = "download"
    /\ \E step \in DownloadSteps \cup {"none"} :
        LET r == download_graph(graph_remote_url, site_assets, step)
        IN  /\ site_assets' = r.assets
            /\ IF r.outcome.raised = None
               THEN /\ graph_local_path' = r.outcome.value
                    /\ UNCHANGED <<exc, notes>>
               ELSE /\ exc' = r.outcome.raised
                    /\ notes' = Append(notes, DownloadFailedNote(r.outcome.raised))
                    /\ UNCHANGED graph_local_path
    /\ pc' = "extract_table"
    /\ UNCHANGED <<unit_vars, html, idx, candidates, graph_remote_url,
                   graph_caption, table_title, main_df, table_columns,
                   table_rows, site_data, error>>

MainExtractTable_saves_anyway ==
    /\ pc = "extract_table"
    /\ LET r == extract_table(html.tables)
       IN  IF r.raised = None
           THEN /\ table_title' = r.value[1]
                /\ main_df' = r.value[2]
                /\ pc' = "dataframe_to_rows"
                /\ error' = error
           ELSE /\ pc' = "save_latest"
                /\ error' = r.raised
                /\ UNCHANGED <<table_title, main_df>>
    /\ UNCHANGED <<unit_vars, html, idx, candidates, graph_remote_url,
                   graph_caption, graph_local_path, exc, notes, table_columns,
                   table_rows, site_data, site_assets>>

\* table_title, df = extract_table(html): its ValueError ends the run
MainExtractTable ==
    /\ pc = "extract_table"
    /\ LET r == extract_table(html.tables)
       IN  IF r.raised = None
           THEN /\ table_title' = r.value[1]
                /\ main_df' = r.value[2]
                /\ pc' = "dataframe_to_rows"
                /\ error' = error
           ELSE /\ pc' = "failed"
                /\ error' = r.raised
                /\ UNCHANGED <<table_title, main_df>>
    /\ UNCHANGED <<unit_vars, html, idx, candidates, graph_remote_url,
                   graph_caption, graph_local_path, exc, notes, table_columns,
                   table_rows, site_data, site_assets>>

\* columns, rows = dataframe_to_rows(df)
MainDataframeToRows ==
    /\ pc = "dataframe_to_rows"
    /\ table_columns' = dataframe_to_rows(main_df)[1]
    /\ table_rows' = dataframe_to_rows(main_df)[2]
    /\ pc' = "save_latest"
    /\ UNCHANGED <<unit_vars, html, idx, candidates, graph_remote_url,
                   graph_caption, graph_local_path, exc, notes, table_title,
                   main_df, site_data, site_assets, error>>

\* save_json(latest_path, payload)
MainSaveLatest ==
    /\ pc = "save_latest"
    /\ site_data' = dict_set(site_data, latest_name, Payload)
    /\ pc' = "save_history"
    /\ UNCHANGED <<unit_vars, html, idx, candidates, graph_remote_url,
                   graph_caption, graph_local_path, exc, notes, table_title,
                   main_df, table_columns, table_rows, site_assets, error>>

\* save_json(history_path, payload)
MainSaveHistory ==
    /\ pc = "save_history"
    /\ site_data' = dict_set(site_data, history_name, Payload)
    /\ pc' = "done"
    /\ UNCHANGED <<unit_vars, html, idx, candidates, graph_remote_url,
                   graph_caption, graph_local_path, exc, notes, table_title,
                   main_df, table_columns, table_rows, site_assets, error>>

Init ==
    /\ fn = "main"
    /\ arg = None
    /\ ret = None
    /\ pc = "start"
    /\ html \in Pages(MaxNodes - 1, MaxTables)
    /\ MainLocalsInit

Next ==
    \/ MainFetch
    \/ GraphBegin
    \/ GraphPrimaryStep
    \/ GraphPrimaryEnd
    \/ GraphFallbackStep
    \/ GraphFallbackEnd
    \/ GraphSortReturn
    \/ MainAfterGraph
    \/ MainDownload
    \/ MainExtractTable
    \/ MainDataframeToRows
    \/ MainSaveLatest
    \/ MainSaveHistory

Spec == Init /\ [][Next]_vars

----------------------------------------------------------------------------
(* C8 *)

\* phrase p occurs in text at some offset, compared without regard to case
OccursNoCase(p, text) ==
    \E i \in 0..(Len(text) - Len(p)) :
        \A k \in 1..Len(p) : LowerChar(text[i + k]) = LowerChar(p[k])

ClassWeight(ps, w, text) == IF \E p \in ps : OccursNoCase(p, text) THEN w ELSE 0

C8_Sum(text) ==
      ClassWeight({<<"o","p","i","n","i","o","n">>}, 2, text)
    + ClassWeight({<<"p","o","l","l">>}, 3, text)
    + ClassWeight({<<"g","r","a","p","h">>, <<"c","h","a","r","t">>}, 1, text)
    + ClassWeight({<<"n","e","x","t"," ","u","n","i","t","e","d"," ","k","i","n","g","d","o","m">>, <<"g","e","n","e","r","a","l"," ","e","l","e","c","t","i","o","n">>}, 2, text)

AllPhrases ==
    { <<"o","p","i","n","i","o","n">>, <<"p","o","l","l">>, <<"g","r","a","p","h">>, <<"c","h","a","r","t">>, <<"n","e","x","t"," ","u","n","i","t","e","d"," ","k","i","n","g","d","o","m">>,
      <<"g","e","n","e","r","a","l"," ","e","l","e","c","t","i","o","n">> }

\* C8: score_graph_candidate returns the sum of the weights of the phrase
\* classes that occur case-insensitively in the text (opinion 2, poll 3,
\* graph or chart 1 once, next united kingdom or general election 2 once);
\* the result lies in 0..8 and is 0 for the empty text and for a text in
\* which no phrase occurs.
C8_ScoreIsWeightSum ==
    fn = "score_graph_candidate" =>
        /\ ret = C8_Sum(arg)
        /\ ret \in 0..8
        /\ (arg = <<>> => ret = 0)
        /\ ((\A p \in AllPhrases : ~OccursNoCase(p, arg)) => ret = 0)

C8_Witness ==
    /\ fn = "score_graph_candidate"
    /\ arg = <<"O","p","i","n","i","o","n"," ","p","o","l","l"," ","g","r","a","p","h"," ","G","e","n","e","r","a","l"," ","E","l","e","c","t","i","o","n">>
    /\ ret = 8

----------------------------------------------------------------------------
(* C9 *)

\* the level strings of a column's tuple
LevelStrings(tup) == [i \in 1..Len(tup) |-> str(tup[i])]

\* C9 as stated: the level strings that are non-empty and not "nan", as they
\* are, joined with " | "; "column" when every level is empty or "nan"
C9_AsStated(columns) ==
    IF columns.multi
    THEN [i \in 1..Len(columns.cols) |->
            LET kept == SelectSeq(LevelStrings(columns.cols[i]),
                                  LAMBDA x : x # <<>> /\ x # <<"n","a","n">>)
            IN  IF kept = <<>> THEN <<"c","o","l","u","m","n">> ELSE join(<<" ","|"," ">>, kept)]
    ELSE [i \in 1..Len(columns.cols) |-> strip(str(columns.cols[i]))]

\* C9 (as stated, refuted): for a multi-level header flatten_columns joins,
\* with " | ", the level strings that are non-empty and not "nan", and yields
\* "column" when there is none; for a single-level header it yields the
\* trimmed string form of each cell.
C9_Original == fn = "flatten_columns" => ret = C9_AsStated(arg)

\* the trimmed level strings of a tuple, leaving out a level whose trimmed
\* string is empty and a level whose untrimmed string is exactly "nan"
RECURSIVE TrimmedLevels(_)
TrimmedLevels(tup) ==
    IF tup = <<>> THEN <<>>
    ELSE LET x == str(Head(tup))
             drop == (\A k \in 1..Len(x) : x[k] \in Whitespace) \/ x = <<"n","a","n">>
         IN  (IF drop THEN <<>> ELSE <<strip(x)>>) \o TrimmedLevels(Tail(tup))

\* C9 (amended): for a multi-level header flatten_columns maps each column to
\* its trimmed level strings, leaving out those that are empty once trimmed
\* and those equal to "nan" before trimming, joined with " | " in level
\* order, and to "column" when none is left; for a single-level header it
\* maps each column to the trimmed string form of its cell.  The header
\* [("Con","%"),("Lab","%")] flattens to ["Con | %","Lab | %"], and the output
\* has one label per input column, in the same order.
C9_FlattenTrimmed ==
    /\ fn = "flatten_columns" =>
        /\ Len(ret) = Len(arg.cols)
        /\ \A i \in 1..Len(ret) :
            ret[i] = IF arg.multi
                     THEN LET ls == TrimmedLevels(arg.cols[i])
                          IN  IF ls = <<>> THEN <<"c","o","l","u","m","n">> ELSE join(<<" ","|"," ">>, ls)
                     ELSE strip(str(arg.cols[i]))
    /\ flatten_columns(MultiIndex(<< << <<"C","o","n">>, <<"%">> >>, << <<"L","a","b">>, <<"%">> >> >>))
         = << <<"C","o","n"," ","|"," ","%">>, <<"L","a","b"," ","|"," ","%">> >>

C9_Witness ==
    /\ fn = "flatten_columns"
    /\ arg = MultiIndex(<< << <<" ","n","a","n">>, <<"%">> >>, << NaN, <<" ">> >> >>)
    /\ ret = << <<"n","a","n"," ","|"," ","%">>, <<"c","o","l","u","m","n">> >>

----------------------------------------------------------------------------
(* C7 *)

StrongTokens == { <<"p","o","l","l">>, <<"p","o","l","l","s","t","e","r">>, <<"d","a","t","e">>, <<"f","i","e","l","d","w","o","r","k">> }

PartyTokens ==
    { <<"c","o","n">>, <<"c","o","n","s","e","r","v","a","t","i","v","e">>, <<"l","a","b">>, <<"l","a","b","o","u","r">>, <<"l","d">>, <<"l","i","b"," ","d","e","m">>,
      <<"r","e","f","o","r","m">> }

HeaderText(df) == lower(join(<<" ">>, flatten_columns(df.columns)))

\* C7: score_table is 2 for each of poll, pollster, date, fieldwork and 1 for
\* each of con, conservative, lab, labour, ld, lib dem, reform that occurs in
\* the lower-cased, space-joined flattened header, plus 1 with 5 or more rows;
\* a table headed Pollster, Fieldwork dates with 5 rows or more scores at
\* least 4 and is accepted, one headed Name, Value with 2 rows scores below 4
\* and is rejected.
C7_ScoreTableFormula ==
    fn = "score_table" =>
        /\ ret = 2 * Cardinality({t \in StrongTokens : In(t, HeaderText(arg))})
                 + Cardinality({t \in PartyTokens : In(t, HeaderText(arg))})
                 + (IF Len(arg.data) >= 5 THEN 1 ELSE 0)
        /\ (arg.columns = Index(<< <<"P","o","l","l","s","t","e","r">>, <<"F","i","e","l","d","w","o","r","k"," ","d","a","t","e","s">> >>)
                /\ Len(arg.data) >= 5)
            => (ret >= 4 /\ extract_table(<<arg>>) = Return(<<TableTitle, arg>>))
        /\ (arg.columns = Index(<< <<"N","a","m","e">>, <<"V","a","l","u","e">> >>) /\ Len(arg.data) = 2)
            => (ret < 4 /\ extract_table(<<arg>>) = Raise(NoConfidentTable))

C7_Witness ==
    /\ fn = "score_table"
    /\ arg.columns = Index(<< <<"L","i","b">>, <<"D","e","m">> >>)
    /\ Len(arg.data) = 5
    /\ ret = 2

----------------------------------------------------------------------------
(* C1 *)

MaxScore(tables) ==
    CHOOSE m \in {score_table(tables[i]) : i \in 1..Len(tables)} :
        \A i \in 1..Len(tables) : score_table(tables[i]) <= m

FirstWithScore(tables, m) ==
    CHOOSE i \in 1..Len(tables) :
        /\ score_table(tables[i]) = m
        /\ \A j \in 1..(i - 1) : score_table(tables[j]) # m

\* C1: on a non-empty sequence of tables extract_table fails with the "could
\* not confidently identify" error exactly when the maximum score_table value
\* is below 4, and otherwise returns the first table of the sequence that has
\* the maximum score.
C1_FirstMaxOrNoConfidentTable ==
    (fn = "extract_table" /\ arg # <<>>) =>
        LET m == MaxScore(arg)
        IN  /\ (ret.raised = NoConfidentTable) <=> (m < 4)
            /\ m >= 4 => ret = Return(<<TableTitle, arg[FirstWithScore(arg, m)]>>)
            /\ (\E i \in 1..Len(arg) : score_table(arg[i]) >= 4) => ret.raised = None

C1_Witness ==
    /\ fn = "extract_table"
    /\ Len(arg) = 2
    /\ arg[1] # arg[2]
    /\ score_table(arg[1]) = score_table(arg[2])
    /\ ret = Return(<<TableTitle, arg[1]>>)

----------------------------------------------------------------------------
(* C3 *)

\* C3 (refuted by the code): dataframe_to_rows returns the flattened labels
\* in header order with duplicates kept, as many rows as the table has, and
\* in every row exactly one entry per returned column, in the same order.
C3_RowsMatchColumns ==
    fn = "dataframe_to_rows" =>
        /\ ret[1] = flatten_columns(arg.columns)
        /\ Len(ret[2]) = Len(arg.data)
        /\ \A r \in 1..Len(ret[2]) :
            /\ Len(ret[2][r]) = Len(ret[1])
            /\ \A c \in 1..Len(ret[1]) : ret[2][r][c][1] = ret[1][c]

----------------------------------------------------------------------------
(* C2 *)

\* the candidates the primary pass keeps, in document order
RECURSIVE KeptOf(_)
KeptOf(containers) ==
    IF containers = <<>> THEN <<>>
    ELSE primary_candidate(Head(containers), page_url) \o KeptOf(Tail(containers))

Kept(doc) == KeptOf(select_containers(doc))

\* the first position in the candidate list cs that holds its highest score
FirstHighest(cs) ==
    CHOOSE f \in 1..Len(cs) :
        /\ \A k \in 1..Len(cs) : cs[k][1] <= cs[f][1]
        /\ \A k \in 1..(f - 1) : cs[k][1] < cs[f][1]

\* C2: when the primary pass keeps a candidate, extract_graph returns the
\* url and caption of the kept candidate with the highest score, and among
\* those with the highest score of the one whose container comes first in
\* the document.
C2_FirstHighestKept ==
    /\ pc = "graph_sort" => candidates = Kept(html.doc)
    /\ (pc = "graph_returned" /\ Kept(html.doc) # <<>>) =>
        LET best == Kept(html.doc)[FirstHighest(Kept(html.doc))]
        IN  graph_remote_url = best[2] /\ graph_caption = best[3]

C2_Witness ==
    /\ pc = "graph_returned"
    /\ Len(Kept(html.doc)) = 2
    /\ Kept(html.doc)[1][1] = Kept(html.doc)[2][1]
    /\ Kept(html.doc)[1][2] # Kept(html.doc)[2][2]
    /\ graph_remote_url = Kept(html.doc)[1][2]

----------------------------------------------------------------------------
(* C6 *)

AltOrEmpty(img) == IF img.alt = None THEN <<>> ELSE img.alt

\* the combined alt and caption text of a container's first image
CombinedText(container) ==
    strip(AltOrEmpty(container.imgs[1]) \o <<" ">>
          \o (IF container.caption_el = None THEN <<>>
              ELSE strip(container.caption_el)))

\* the positions of the article's images whose alt text contains "poll"
PollAlts(doc) ==
    {k \in 1..Len(select_content_imgs(doc)) :
        OccursNoCase(<<"p","o","l","l">>, AltOrEmpty(select_content_imgs(doc)[k]))}

PollAltsWithSource(doc) ==
    {k \in PollAlts(doc) : truthy(select_content_imgs(doc)[k].src)}

----------------------------------------------------------------------------
(* C4, C5, C10 *)

\* d[k] of a dict that holds k
dict_get(d, k) == d[CHOOSE n \in 1..Len(d) : d[n][1] = k][2]

has_key(d, k) == \E n \in 1..Len(d) : d[n][1] = k

\* the page has no primary candidate and nothing the fallback scan returns
NoGraphOnPage(doc) == Kept(doc) = <<>> /\ PollAltsWithSource(doc) = {}

ConfidentTable(tables) == \E k \in 1..Len(tables) : score_table(tables[k]) >= 4

\* the table extract_table picks from tables that hold a confident one
BestTable(tables) == tables[FirstWithScore(tables, MaxScore(tables))]

\* C4: when the page has a table scoring 4 or more, no primary candidate and
\* nothing for the fallback scan, nothing past the fetch ends the run, and the
\* written payload has the table, null graph.remote_url, graph.local_path and
\* graph.caption, and exactly one note, the one saying the graph is missing.
C4_MissingGraphIsOneNote ==
    (pc # "idle" /\ ConfidentTable(html.tables) /\ NoGraphOnPage(html.doc)) =>
        /\ pc = "failed" => error = FetchFailed
        /\ pc = "done" =>
            LET written == dict_get(site_data, latest_name)
            IN  /\ written.table.title = TableTitle
                /\ written.table.columns
                     = flatten_columns(BestTable(html.tables).columns)
                /\ written.table.row_count = Len(BestTable(html.tables).data)
                /\ written.graph.remote_url = None
                /\ written.graph.local_path = None
                /\ written.graph.caption = None
                /\ written.notes = <<GraphNotFoundNote>>
                /\ dict_get(site_data, history_name) = written

C4_Witness ==
    /\ pc = "done"
    /\ html.doc # <<>>
    /\ NoGraphOnPage(html.doc)
    /\ notes = <<GraphNotFoundNote>>
    /\ has_key(site_data, latest_name)

\* what extract_graph returns on a page: <<url, caption>>
GraphOf(doc) ==
    IF Kept(doc) # <<>>
    THEN <<Kept(doc)[FirstHighest(Kept(doc))][2], Kept(doc)[FirstHighest(Kept(doc))][3]>>
    ELSE IF PollAltsWithSource(doc) = {} THEN <<None, None>>
    ELSE LET img == select_content_imgs(doc)[Min(PollAltsWithSource(doc))]
         IN  <<urljoin(page_url, normalize_img_url(img.src)), img.alt>>

TableErrors == {NoTablesFound, NoConfidentTable}

\* C5: when download_graph raises, the run goes on to the table extraction:
\* only the table can still end it, and when it does not, the written payload
\* has graph.remote_url and graph.caption as extract_graph returned them,
\* graph.local_path null, and a note for the failed download.
C5_DownloadFailureIsANote ==
    exc # None =>
        /\ pc \in {"extract_table", "dataframe_to_rows", "save_latest",
                   "save_history", "done", "failed"}
        /\ pc = "failed" => error \in TableErrors
        /\ pc \in {"done", "failed"} =>
            ((pc = "failed") <=> (extract_table(html.tables).raised # None))
        /\ pc = "done" =>
            LET written == dict_get(site_data, latest_name)
            IN  /\ written.graph.remote_url = GraphOf(html.doc)[1]
                /\ written.graph.remote_url # None
                /\ written.graph.caption = GraphOf(html.doc)[2]
                /\ written.graph.local_path = None
                /\ \E n \in 1..Len(written.notes) :
                        written.notes[n] = DownloadFailedNote(exc)

C5_Witness ==
    /\ pc = "done"
    /\ exc = DownloadError("write_latest")
    /\ site_assets # <<>>
    /\ graph_local_path = None
    /\ notes = <<DownloadFailedNote(exc)>>

\* C10: latest.json and the dated history file are written only after
\* extract_table has succeeded; when it fails neither is written, even if the
\* graph was downloaded; when the run completes both hold the same payload,
\* whose table.row_count is the number of entries of table.rows.
C10_FilesOnlyAfterTable ==
    /\ site_data # <<>> =>
        (table_title = TableTitle /\ extract_table(html.tables).raised = None)
    /\ (pc = "failed" /\ error \in TableErrors) => site_data = <<>>
    /\ pc = "done" =>
        /\ Len(site_data) = 2
        /\ has_key(site_data, latest_name)
        /\ has_key(site_data, history_name)
        /\ dict_get(site_data, latest_name) = dict_get(site_data, history_name)
        /\ dict_get(site_data, latest_name).table.row_count
             = Len(dict_get(site_data, latest_name).table.rows)
        /\ Len(dict_get(site_data, latest_name).table.rows) = Len(main_df.data)

C10_Witness ==
    /\ pc = "failed"
    /\ error = NoConfidentTable
    /\ has_key(site_assets, <<"g","r","a","p","h","-","l","a","t","e","s","t",".","s","v","g">>)
    /\ site_data = <<>>
====
